---- MODULE Spec2Model ----
(***************************************************************************)
(* Model of the sales data pipeline of src/analyzer.py: SalesAnalyzer      *)
(* loads a delimited file (load_data), cleans it (clean_data), exports the *)
(* clean table (export_clean_data) and computes metrics over it            *)
(* (calculate_metrics, get_top_categories, get_top_customers).             *)
(*                                                                         *)
(* A table is a sequence of rows.  A row of the file is a record of text   *)
(* cells; a row of a DataFrame is a record of typed cells with its index   *)
(* label idx.  A numeric column's cell is [k, v]:                          *)
(*   file:      k = "txt" (text spelling the number v), "bad" (text that   *)
(*              spells no number), "empty" (nothing between delimiters);   *)
(*   DataFrame: k = "num" (the number v), "nan" (missing), or "txt"/"bad"  *)
(*              (a str object of an object-dtype column).                  *)
(* A text column's cell is a string, "" in the file and NaN in a DataFrame *)
(* when it is missing.  Amounts are exact numbers (integers).              *)
(* An optional value (None in the code) is a sequence of length 0 or 1.    *)
(***************************************************************************)
EXTENDS Integers, Sequences, FiniteSets, TLC

VARIABLES
    file,               \* the file at data_path: None when there is none
    raw_df,             \* self.raw_df
    clean_df,           \* self.clean_df
    removed_count,      \* the count of invalid entries clean_data last reported
    removed_duplicates, \* the count of duplicates clean_data last reported
    out_file,           \* the file at output_path
    from_clean,         \* file was written by export_clean_data
    call,               \* the method called last
    ran,                \* the stages that call ran to their end
    ret,                \* the value it returned, NoRet when it raised
    raised              \* the exception it raised, "none" when it returned

vars == <<file, raw_df, clean_df, removed_count, removed_duplicates,
          out_file, from_clean, call, ran, ret, raised>>

----------------------------------------------------------------------------
(* Bounds of the model *)

MaxRows == 3

MaxOrders == 2

----------------------------------------------------------------------------
(* Values *)

None == <<>>

Some(x) == <<x>>

NaN == "NaN"

NaT == "NaT"

Txt(v) == [k |-> "txt", v |-> v]

Num(v) == [k |-> "num", v |-> v]

Bad == [k |-> "bad", v |-> 0]

Empty == [k |-> "empty", v |-> 0]

NumNaN == [k |-> "nan", v |-> 0]

ValidDates == {"2023-01-05"}

RECURSIVE SelectRows(_, _)
\* df[mask]: the rows of df whose index label is in keep, in df's order
SelectRows(df, keep) ==
    IF df = <<>> THEN <<>>
    ELSE IF Head(df).idx \in keep
         THEN <<Head(df)>> \o SelectRows(Tail(df), keep)
         ELSE SelectRows(Tail(df), keep)

Labels(df) == {df[i].idx : i \in 1..Len(df)}

----------------------------------------------------------------------------
(* pandas.read_csv and DataFrame.to_csv *)

\* a column of the file is parsed as numbers unless one of its cells is
\* text that spells no number; then its cells stay str objects
NumericColumn(f, col) == \A i \in 1..Len(f) : f[i][col].k # "bad"

ParseNumCell(c, numeric) ==
    IF c.k = "empty" THEN NumNaN
    ELSE IF numeric THEN Num(c.v)
    ELSE c

ParseStrCell(c) == IF c = "" THEN NaN ELSE c

ReadCsv(f) ==
    [i \in 1..Len(f) |->
        [idx              |-> i - 1,
         order_id         |-> ParseStrCell(f[i].order_id),
         customer_id      |-> ParseStrCell(f[i].customer_id),
         order_date       |-> ParseStrCell(f[i].order_date),
         product_category |-> ParseStrCell(f[i].product_category),
         product_name     |-> ParseStrCell(f[i].product_name),
         quantity         |-> ParseNumCell(f[i].quantity, NumericColumn(f, "quantity")),
         unit_price       |-> ParseNumCell(f[i].unit_price, NumericColumn(f, "unit_price")),
         order_amount     |-> ParseNumCell(f[i].order_amount, NumericColumn(f, "order_amount")),
         status           |-> ParseStrCell(f[i].status)]]

WriteNumCell(c) ==
    IF c.k = "nan" THEN Empty
    ELSE IF c.k = "num" THEN Txt(c.v)
    ELSE c

WriteStrCell(c) == IF c \in {NaN, NaT} THEN "" ELSE c

\* to_csv(output_path, index=False): the index labels are not written
ToCsv(df) ==
    [i \in 1..Len(df) |->
        [order_id         |-> WriteStrCell(df[i].order_id),
         customer_id      |-> WriteStrCell(df[i].customer_id),
         order_date       |-> WriteStrCell(df[i].order_date),
         product_category |-> WriteStrCell(df[i].product_category),
         product_name     |-> WriteStrCell(df[i].product_name),
         quantity         |-> WriteNumCell(df[i].quantity),
         unit_price       |-> WriteNumCell(df[i].unit_price),
         order_amount     |-> WriteNumCell(df[i].order_amount),
         status           |-> WriteStrCell(df[i].status)]]

----------------------------------------------------------------------------
(* The steps of clean_data *)

\* df['status'].fillna('pending')
FillnaStatus(df) ==
    [i \in 1..Len(df) |->
        IF df[i].status = NaN THEN [df[i] EXCEPT !.status = "pending"] ELSE df[i]]

\* pd.to_datetime(errors='coerce') of one cell
ToDatetimeCell(c) == IF c \in ValidDates THEN c ELSE NaT

\* pd.to_numeric(errors='coerce') of one cell
ToNumericCell(c) ==
    IF c.k \in {"num", "txt"} THEN Num(c.v) ELSE NumNaN

ConvertTypes(df) ==
    [i \in 1..Len(df) |->
        [df[i] EXCEPT !.order_date   = ToDatetimeCell(@),
                      !.order_amount = ToNumericCell(@),
                      !.unit_price   = ToNumericCell(@)]]

\* cell > 0 on a float column: False for NaN
PositiveCell(c) == c.k = "num" /\ c.v > 0

\* df[df['order_amount'] > 0]
FilterAmount(df) ==
    SelectRows(df, {df[i].idx : i \in {j \in 1..Len(df) : PositiveCell(df[j].order_amount)}})

\* df['quantity'] > 0 compares a str object with an int: TypeError
QuantityRaises(df) == \E i \in 1..Len(df) : df[i].quantity.k \in {"txt", "bad"}

\* a slip: df[df['quantity'] >= 0]
FilterQuantityNonNegative(df) ==
    SelectRows(df, {df[i].idx : i \in {j \in 1..Len(df) :
                        df[j].quantity.k = "num" /\ df[j].quantity.v >= 0}})

\* df[df['quantity'] > 0]
FilterQuantity(df) ==
    SelectRows(df, {df[i].idx : i \in {j \in 1..Len(df) : PositiveCell(df[j].quantity)}})

\* a slip: df.drop_duplicates(keep='first'), rows equal in every column
DropDuplicatesAllColumns(df) ==
    SelectRows(df, {df[i].idx : i \in {j \in 1..Len(df) :
                        \A h \in 1..(j - 1) :
                            [df[h] EXCEPT !.idx = 0] # [df[j] EXCEPT !.idx = 0]}})

\* a slip: df[df.duplicated(subset=['order_id'])], the mask not negated
DropDuplicatesKeepsDuplicated(df) ==
    SelectRows(df, {df[i].idx : i \in {j \in 1..Len(df) :
                        \E h \in 1..(j - 1) : df[h].order_id = df[j].order_id}})

\* df.drop_duplicates(subset=['order_id'], keep='first')
DropDuplicates(df) ==
    SelectRows(df, {df[i].idx : i \in {j \in 1..Len(df) :
                        \A h \in 1..(j - 1) : df[h].order_id # df[j].order_id}})

----------------------------------------------------------------------------
(* SalesAnalyzer: the methods as functions of the object's state s, a      *)
(* record of the fields raw_df and clean_df, the counts clean_data prints, *)
(* the stages the call completed, and the exception the call ended with.   *)

Self ==
    [raw_df |-> raw_df, clean_df |-> clean_df,
     removed_count |-> removed_count, removed_duplicates |-> removed_duplicates,
     ran |-> {}, raised |-> "none"]

\* load_data: pd.read_csv(self.data_path)
load_data(s) ==
    IF file = None
    THEN [s EXCEPT !.raised = "FileNotFoundError"]
    ELSE [s EXCEPT !.raw_df = Some(ReadCsv(file[1])),
                   !.ran = @ \cup {"load_data"}]

\* a slip: the duplicates dropped before the invalid entries
clean_steps_duplicates_first(s) ==
    LET df2 == ConvertTypes(FillnaStatus(s.raw_df[1]))
        df3 == DropDuplicates(df2)
        df4 == FilterAmount(df3)
        df5 == FilterQuantity(df4)
    IN  IF QuantityRaises(df4)
        THEN [s EXCEPT !.raised = "TypeError"]
        ELSE [s EXCEPT !.removed_count = Some(Len(df3) - Len(df5)),
                       !.removed_duplicates = Some(Len(df2) - Len(df3)),
                       !.clean_df = Some(df5),
                       !.ran = @ \cup {"clean_data"}]

\* clean_data, from the copy of raw_df on
clean_steps(s) ==
    LET df2 == ConvertTypes(FillnaStatus(s.raw_df[1]))
        df3 == FilterAmount(df2)
        df4 == FilterQuantity(df3)
        df5 == DropDuplicates(df4)
    IN  IF QuantityRaises(df3)
        THEN [s EXCEPT !.raised = "TypeError"]
        ELSE [s EXCEPT !.removed_count = Some(Len(df2) - Len(df4)),
                       !.removed_duplicates = Some(Len(df4) - Len(df5)),
                       !.clean_df = Some(df5),
                       !.ran = @ \cup {"clean_data"}]

clean_data(s) ==
    LET s1 == IF s.raw_df = None THEN load_data(s) ELSE s
    IN  IF s1.raised # "none" THEN s1 ELSE clean_steps(s1)

\* a slip: clean_data called whether or not clean_df is set
ensure_clean_always(s) == clean_data(s)

\* the first lines of export_clean_data and of calculate_metrics
ensure_clean(s) == IF s.clean_df = None THEN clean_data(s) ELSE s

Commit(s) ==
    /\ raw_df' = s.raw_df
    /\ clean_df' = s.clean_df
    /\ removed_count' = s.removed_count
    /\ removed_duplicates' = s.removed_duplicates
    /\ ran' = s.ran
    /\ raised' = s.raised

NoRet == [kind |-> "none"]

----------------------------------------------------------------------------
(* The metrics.  A float result is an exact fraction num/den or NaN. *)

Ratio(n, d) == [nan |-> FALSE, num |-> n, den |-> d]

FloatNaN == [nan |-> TRUE, num |-> 0, den |-> 1]

\* df[df['status'] == value]
WithStatus(df, value) ==
    SelectRows(df, {df[i].idx : i \in {j \in 1..Len(df) : df[j].status = value}})

RECURSIVE SumAmount(_)
\* df['order_amount'].sum(): 0 for no rows, NaN cells skipped
SumAmount(df) ==
    IF df = <<>> THEN 0
    ELSE (IF Head(df).order_amount.k = "num" THEN Head(df).order_amount.v ELSE 0)
         + SumAmount(Tail(df))

\* the values of a column that are not missing
Present(df, col) == {df[i][col] : i \in 1..Len(df)} \ {NaN}

\* df['order_amount'].mean(): NaN for no rows
MeanAmount(df) ==
    IF Len(df) = 0 THEN FloatNaN ELSE Ratio(SumAmount(df), Len(df))

\* self.clean_df['customer_id'].value_counts(): missing ids are not counted
ValueCounts(df) ==
    [c \in Present(df, "customer_id") |->
        Cardinality({i \in 1..Len(df) : df[i].customer_id = c})]

_calculate_repeat_rate(df) ==
    LET order_counts == ValueCounts(df)
        repeat_customers == Cardinality({c \in DOMAIN order_counts : order_counts[c] > 1})
        total_customers == Cardinality(DOMAIN order_counts)
    IN  IF total_customers > 0
        THEN Ratio(100 * repeat_customers, total_customers)
        ELSE Ratio(0, 1)

\* len(cancelled) / len(clean_df) divides two ints: ZeroDivisionError at 0
CancellationRaises(df) == Len(df) = 0

cancellation_rate(df) == Ratio(100 * Len(WithStatus(df, "cancelled")), Len(df))

metrics_of(df) ==
    LET completed_orders == WithStatus(df, "completed")
    IN  [total_revenue        |-> SumAmount(completed_orders),
         total_orders         |-> Len(completed_orders),
         customer_count       |-> Cardinality(Present(df, "customer_id")),
         avg_order_value      |-> MeanAmount(completed_orders),
         repeat_customer_rate |-> _calculate_repeat_rate(df),
         cancellation_rate    |-> cancellation_rate(df)]

\* completed.groupby(col)['order_amount'].sum(): one group per key that is
\* not missing
GroupSums(df, col) ==
    LET completed == WithStatus(df, "completed")
    IN  [key \in Present(completed, col) |->
            SumAmount(SelectRows(completed,
                {completed[i].idx : i \in {j \in 1..Len(completed) : completed[j][col] = key}}))]

\* a slip: sort_values() with the default ascending=True
SortedAscending(sums) ==
    LET k == Cardinality(DOMAIN sums)
    IN  {p \in [1..k -> DOMAIN sums] :
            /\ \A i, j \in 1..k : i # j => p[i] # p[j]
            /\ \A i, j \in 1..k : i < j => sums[p[i]] <= sums[p[j]]}

\* the orders sort_values(ascending=False) may give the groups: the default
\* sort (quicksort) is not stable, equal sums come in any order
SortedDescending(sums) ==
    LET k == Cardinality(DOMAIN sums)
    IN  {p \in [1..k -> DOMAIN sums] :
            /\ \A i, j \in 1..k : i # j => p[i] # p[j]
            /\ \A i, j \in 1..k : i < j => sums[p[i]] >= sums[p[j]]}

\* .head(n) of the sorted series, as <<key, sum>> pairs
HeadOf(sums, p, n) ==
    [i \in 1..(IF n < Len(p) THEN n ELSE Len(p)) |-> <<p[i], sums[p[i]]>>]

\* the n of a call: main asks for 1 and for the default 10
TopN == {1, 10}

----------------------------------------------------------------------------
(* Actions: one per call *)

LoadData ==
    /\ Commit(load_data(Self))
    /\ call' = "load_data"
    /\ ret' = NoRet
    /\ UNCHANGED <<file, out_file, from_clean>>

CleanData ==
    /\ Commit(clean_data(Self))
    /\ call' = "clean_data"
    /\ ret' = NoRet
    /\ UNCHANGED <<file, out_file, from_clean>>

ExportCleanData ==
    LET s == ensure_clean(Self)
    IN  /\ Commit(s)
        /\ call' = "export_clean_data"
        /\ out_file' = IF s.raised = "none" THEN Some(ToCsv(s.clean_df[1])) ELSE out_file
        /\ ret' = NoRet
        /\ UNCHANGED <<file, from_clean>>

\* the value calculate_metrics returns, NoRet when it raises
metrics_result(s) ==
    IF s.raised # "none" \/ CancellationRaises(s.clean_df[1])
    THEN NoRet
    ELSE [kind |-> "metrics", val |-> metrics_of(s.clean_df[1])]

CalculateMetrics ==
    LET s == ensure_clean(Self)
    IN  /\ Commit(IF s.raised = "none" /\ CancellationRaises(s.clean_df[1])
                  THEN [s EXCEPT !.raised = "ZeroDivisionError"]
                  ELSE s)
        /\ call' = "calculate_metrics"
        /\ ret' = metrics_result(s)
        /\ UNCHANGED <<file, out_file, from_clean>>

\* the values get_top_categories(n) may return
get_top_categories(df, n) ==
    {HeadOf(GroupSums(df, "product_category"), p, n) :
        p \in SortedDescending(GroupSums(df, "product_category"))}

\* the values get_top_customers(n) may return
get_top_customers(df, n) ==
    {HeadOf(GroupSums(df, "customer_id"), p, n) :
        p \in SortedDescending(GroupSums(df, "customer_id"))}

\* both subscript self.clean_df as it is: TypeError while it is None
GetTopCategories ==
    /\ call' = "get_top_categories"
    /\ UNCHANGED <<file, out_file, from_clean>>
    /\ IF clean_df = None
       THEN Commit([Self EXCEPT !.raised = "TypeError"]) /\ ret' = NoRet
       ELSE /\ Commit(Self)
            /\ \E n \in TopN : \E v \in get_top_categories(clean_df[1], n) :
                  ret' = [kind |-> "top_categories", n |-> n, val |-> v]

GetTopCustomers ==
    /\ call' = "get_top_customers"
    /\ UNCHANGED <<file, out_file, from_clean>>
    /\ IF clean_df = None
       THEN Commit([Self EXCEPT !.raised = "TypeError"]) /\ ret' = NoRet
       ELSE /\ Commit(Self)
            /\ \E n \in TopN : \E v \in get_top_customers(clean_df[1], n) :
                  ret' = [kind |-> "top_customers", n |-> n, val |-> v]

\* a new SalesAnalyzer whose data_path is the exported file
Reanalyze ==
    /\ out_file # None
    /\ file' = out_file
    /\ from_clean' = TRUE
    /\ raw_df' = None
    /\ clean_df' = None
    /\ removed_count' = None
    /\ removed_duplicates' = None
    /\ call' = "__init__"
    /\ ran' = {}
    /\ raised' = "none"
    /\ ret' = NoRet
    /\ UNCHANGED out_file

----------------------------------------------------------------------------
(* Initial states *)

InitObject ==
    /\ raw_df = None
    /\ clean_df = None
    /\ removed_count = None
    /\ removed_duplicates = None
    /\ out_file = None
    /\ from_clean = FALSE
    /\ call = "__init__"
    /\ ran = {}
    /\ ret = NoRet
    /\ raised = "none"

FileRow(oid, cust, cat, qty, amount, st) ==
    [order_id |-> oid, customer_id |-> cust, order_date |-> "2023-01-05",
     product_category |-> cat, product_name |-> "Lamp",
     quantity |-> qty, unit_price |-> Txt(5), order_amount |-> amount,
     status |-> st]

SeqsUpTo(S, n) == UNION {[1..m -> S] : m \in 0..n}

\* <<quantity, order_amount>> of a row: valid, or invalid in one cell
CleanShapes ==
    {<<Txt(2), Txt(5)>>, <<Txt(2), Txt(7)>>, <<Txt(2), Txt(0)>>, <<Txt(2), Bad>>,
     <<Txt(0), Txt(5)>>, <<Empty, Txt(5)>>, <<Bad, Txt(5)>>}

CleanRows ==
    {FileRow(oid, "CUST1", "Books", sh[1], sh[2], "completed") :
        oid \in {"ORD1", "ORD2"}, sh \in CleanShapes}

InitClean ==
    /\ file \in {Some(f) : f \in SeqsUpTo(CleanRows, MaxRows)}
    /\ InitObject

NextClean == LoadData \/ CleanData \/ ExportCleanData \/ Reanalyze

SpecClean == InitClean /\ [][NextClean]_vars

StageStatuses == {"", "completed", "cancelled", "pending", "shipped"}

StageRows ==
    {FileRow(oid, "CUST1", "Books", Txt(2), amount, st) :
        oid \in {"ORD1", "ORD2"}, amount \in {Txt(5), Txt(0)}, st \in StageStatuses}

InitStages ==
    /\ file \in {None} \cup {Some(f) : f \in SeqsUpTo(StageRows, MaxOrders)}
    /\ InitObject

NextStages == CleanData \/ ExportCleanData \/ CalculateMetrics

SpecStages == InitStages /\ [][NextStages]_vars

OrderIds == <<"ORD1", "ORD2", "ORD3", "ORD4">>

\* <<customer_id, product_category, order_amount, status>> of a row
MetricCells ==
    {<<cust, cat, amount, "completed">> :
        cust \in {"CUST1", "CUST2", ""}, cat \in {"Books", "Sports", ""},
        amount \in {Txt(1), Txt(2)}}
    \cup
    {<<cust, cat, Txt(2), "cancelled">> :
        cust \in {"CUST1", "CUST2", ""}, cat \in {"Books", "Sports", ""}}

MetricFiles ==
    {[i \in 1..Len(cs) |->
        FileRow(OrderIds[i], cs[i][1], cs[i][2], Txt(2), cs[i][3], cs[i][4])] :
            cs \in SeqsUpTo(MetricCells, MaxOrders)}

InitMetrics ==
    /\ file \in {Some(f) : f \in MetricFiles}
    /\ InitObject

NextMetrics == CleanData \/ CalculateMetrics \/ GetTopCategories \/ GetTopCustomers

SpecMetrics == InitMetrics /\ [][NextMetrics]_vars

----------------------------------------------------------------------------
(* The whole program: any file of the three families, any call *)

Init ==
    /\ file \in {None} \cup {Some(f) : f \in SeqsUpTo(CleanRows, MaxOrders)}
                     \cup {Some(f) : f \in SeqsUpTo(StageRows, MaxOrders)}
                     \cup {Some(f) : f \in MetricFiles}
    /\ InitObject

Next ==
    \/ LoadData
    \/ CleanData
    \/ ExportCleanData
    \/ CalculateMetrics
    \/ GetTopCategories
    \/ GetTopCustomers
    \/ Reanalyze

Spec == Init /\ [][Next]_vars

----------------------------------------------------------------------------
(* Properties of the Cleaner, checked under SpecClean *)

Raw == raw_df[1]

Clean == clean_df[1]

Cleaned == clean_df # None /\ raw_df # None

\* a row of raw_df passes order_amount > 0 and quantity > 0
ValidRaw(r) ==
    /\ r.order_amount.k \in {"num", "txt"}
    /\ r.order_amount.v > 0
    /\ r.quantity.k = "num"
    /\ r.quantity.v > 0

\* C1: no two records of the clean table clean_data produces have the same
\* order_id.
C1_Uniqueness ==
    clean_df # None =>
        \A i, j \in 1..Len(Clean) : i # j => Clean[i].order_id # Clean[j].order_id

\* clean_data has produced a clean table and dropped a duplicate on the way
C1_Witness ==
    /\ Cleaned
    /\ removed_duplicates # None
    /\ removed_duplicates[1] > 0
    /\ Len(Clean) > 0

\* C2: every record of the clean table has order_amount > 0 and
\* quantity > 0, and a raw record whose order_amount spells no number or
\* whose quantity is missing is not in the clean table.
C2_Positivity ==
    Cleaned =>
        /\ \A i \in 1..Len(Clean) :
              /\ Clean[i].order_amount.k = "num" /\ Clean[i].order_amount.v > 0
              /\ Clean[i].quantity.k = "num" /\ Clean[i].quantity.v > 0
        /\ \A j \in 1..Len(Raw) :
              (Raw[j].order_amount.k \in {"bad", "nan"} \/ Raw[j].quantity.k = "nan")
                  => Raw[j].idx \notin Labels(Clean)

\* a clean table with a record left, from a raw table with an order_amount
\* that spells no number, a missing quantity and a quantity of 0
C2_Witness ==
    /\ Cleaned
    /\ Len(Clean) > 0
    /\ \E j \in 1..Len(Raw) : Raw[j].order_amount.k = "bad"
    /\ \E j \in 1..Len(Raw) : Raw[j].quantity.k = "nan"

\* C4: cleaning the exported clean table again gives the same records in
\* the same order, with no invalid entry and no duplicate removed, and
\* clean_data does not raise on it.
C4_Idempotence ==
    from_clean =>
        /\ call \in {"clean_data", "export_clean_data"} => raised = "none"
        /\ clean_df # None =>
              /\ Len(Clean) = Len(file[1])
              /\ ToCsv(Clean) = file[1]
              /\ removed_count = Some(0)
              /\ removed_duplicates = Some(0)

\* the second run has cleaned an exported clean table of two records or more
C4_Witness ==
    /\ from_clean
    /\ call = "clean_data"
    /\ clean_df # None
    /\ Len(Clean) >= 2

\* C9: the clean table is the raw table's records, in the raw order, that
\* are the earliest valid record of their order_id, and the two counts
\* clean_data reports add up to the number of records dropped.
C9_EarliestValid ==
    Cleaned =>
        /\ \A i \in 1..Len(Clean) :
              /\ Clean[i].idx \in Labels(Raw)
              /\ \A col \in {"order_id", "customer_id", "product_category",
                              "product_name", "quantity"} :
                    Clean[i][col] = Raw[Clean[i].idx + 1][col]
        /\ \A i, j \in 1..Len(Clean) : i < j => Clean[i].idx < Clean[j].idx
        /\ Labels(Clean) =
              {Raw[j].idx : j \in {m \in 1..Len(Raw) :
                  /\ ValidRaw(Raw[m])
                  /\ \A h \in 1..(m - 1) :
                        ValidRaw(Raw[h]) => Raw[h].order_id # Raw[m].order_id}}
        /\ removed_count[1] + removed_duplicates[1] = Len(Raw) - Len(Clean)

\* an invalid first record of an order_id, and a later valid one that is
\* in the clean table
C9_Witness ==
    /\ Cleaned
    /\ \E h, j \in 1..Len(Raw) :
          /\ h < j
          /\ Raw[h].order_id = Raw[j].order_id
          /\ ~ValidRaw(Raw[h])
          /\ ValidRaw(Raw[j])
          /\ Raw[j].idx \in Labels(Clean)
    /\ removed_duplicates[1] > 0

----------------------------------------------------------------------------
(* Properties of the stages, checked under SpecStages *)

ValidStatuses == {"pending", "completed", "cancelled"}

\* C3: every record of the clean table has a status that is not missing
\* and is one of pending, completed, cancelled; a raw record with a
\* missing status has status "pending".
C3_StatusDomain ==
    Cleaned =>
        \A i \in 1..Len(Clean) :
            /\ Clean[i].status # NaN
            /\ Clean[i].status \in ValidStatuses
            /\ Raw[Clean[i].idx + 1].status = NaN => Clean[i].status = "pending"

\* C10: in a run of clean_data, export_clean_data and calculate_metrics
\* calls, the file is loaded only while raw_df is unset and raw_df, once
\* set, never changes; export_clean_data and calculate_metrics derive the
\* clean table only while clean_df is unset and leave a set clean_df as it
\* is.
C10_Lifecycle ==
    [][/\ "load_data" \in ran' => raw_df = None /\ raw_df' # None
       /\ raw_df # None => raw_df' = raw_df
       /\ call' \in {"export_clean_data", "calculate_metrics"} =>
             /\ "clean_data" \in ran' => clean_df = None
             /\ clean_df # None => clean_df' = clean_df]_vars

\* export_clean_data has written a clean table that was already there,
\* running neither load_data nor clean_data
C10_Witness ==
    /\ call = "export_clean_data"
    /\ ran = {}
    /\ raised = "none"
    /\ clean_df # None
    /\ Len(Clean) > 0
    /\ out_file = Some(ToCsv(Clean))

----------------------------------------------------------------------------
(* Properties of the metrics, checked under SpecMetrics *)

RECURSIVE SumValues(_)
\* the sum of the values of a top-n result
SumValues(v) == IF v = <<>> THEN 0 ELSE Head(v)[2] + SumValues(Tail(v))

\* the records of the clean table that are completed and have key in col
CompletedOf(col, key) ==
    {i \in 1..Len(Clean) : Clean[i].status = "completed" /\ Clean[i][col] = key}

\* the keys of col that are not missing and have a completed record
GroupKeys(col) ==
    {Clean[i][col] : i \in {j \in 1..Len(Clean) : Clean[j].status = "completed"}} \ {NaN}

RECURSIVE SumOver(_)
\* the sum of order_amount over the records of the clean table at I
SumOver(I) ==
    IF I = {} THEN 0
    ELSE LET i == CHOOSE x \in I : TRUE
         IN  Clean[i].order_amount.v + SumOver(I \ {i})

\* the place in the clean table where key is first met in col
FirstMet(col, key) ==
    CHOOSE i \in 1..Len(Clean) :
        /\ Clean[i][col] = key
        /\ \A h \in 1..(i - 1) : Clean[h][col] # key

TopColumn == IF ret.kind = "top_categories" THEN "product_category" ELSE "customer_id"

IsTop == ret.kind \in {"top_categories", "top_customers"}

\* the result is at most n groups with the largest sums, in descending
\* order of the sum
TopIsLargestDescending ==
    LET v == ret.val
        keys == GroupKeys(TopColumn)
    IN  /\ Len(v) = IF ret.n < Cardinality(keys) THEN ret.n ELSE Cardinality(keys)
        /\ \A i \in 1..Len(v) :
              /\ v[i][1] \in keys
              /\ v[i][2] = SumOver(CompletedOf(TopColumn, v[i][1]))
        /\ \A i, j \in 1..Len(v) : i # j => v[i][1] # v[j][1]
        /\ \A i, j \in 1..Len(v) : i < j => v[i][2] >= v[j][2]
        /\ \A key \in keys \ {v[i][1] : i \in 1..Len(v)} :
              \A i \in 1..Len(v) : SumOver(CompletedOf(TopColumn, key)) <= v[i][2]

\* groups with equal sums are in the order their keys are first met
TiesInFirstMetOrder ==
    LET v == ret.val
    IN  \A i, j \in 1..Len(v) :
            (i < j /\ v[i][2] = v[j][2])
                => FirstMet(TopColumn, v[i][1]) < FirstMet(TopColumn, v[j][1])

\* C5: total_revenue of calculate_metrics equals the sum of the values of
\* get_top_categories(n) when n is at least the number of categories.
C5_RevenueConsistency ==
    (ret.kind = "top_categories" /\ ret.n >= Cardinality(GroupKeys("product_category")))
        => SumValues(ret.val) = metrics_of(Clean).total_revenue

\* C6: for every clean table calculate_metrics returns a
\* repeat_customer_rate and a cancellation_rate in [0, 100], the first
\* 100 * repeating customers / customers (0 without customers), the second
\* 100 * cancelled records / records.
C6_RateBounds ==
    (call = "calculate_metrics" /\ clean_df # None) =>
        /\ ret.kind = "metrics"
        /\ LET r == ret.val.repeat_customer_rate
               c == ret.val.cancellation_rate
               customers == {Clean[i].customer_id : i \in 1..Len(Clean)} \ {NaN}
               repeating == {k \in customers :
                   Cardinality({i \in 1..Len(Clean) : Clean[i].customer_id = k}) > 1}
               cancelled == {i \in 1..Len(Clean) : Clean[i].status = "cancelled"}
           IN  /\ ~r.nan /\ r.den > 0 /\ 0 <= r.num /\ r.num <= 100 * r.den
               /\ ~c.nan /\ c.den > 0 /\ 0 <= c.num /\ c.num <= 100 * c.den
               /\ IF customers = {} THEN r.num = 0
                  ELSE r.num * Cardinality(customers) = 100 * Cardinality(repeating) * r.den
               /\ c.num * Len(Clean) = 100 * Cardinality(cancelled) * c.den

\* C7: on a clean table without records calculate_metrics returns, with
\* customer_count = 0, avg_order_value = 0 and cancellation_rate = 0, and
\* on one without completed records avg_order_value is 0, not NaN.
C7_EmptyTable ==
    (call = "calculate_metrics" /\ clean_df # None) =>
        /\ Len(Clean) = 0 =>
              /\ raised = "none"
              /\ ret.kind = "metrics"
              /\ ret.val.customer_count = 0
              /\ ~ret.val.avg_order_value.nan /\ ret.val.avg_order_value.num = 0
              /\ ~ret.val.cancellation_rate.nan /\ ret.val.cancellation_rate.num = 0
        /\ (Len(Clean) > 0 /\ \A i \in 1..Len(Clean) : Clean[i].status # "completed") =>
              /\ ret.kind = "metrics"
              /\ ~ret.val.avg_order_value.nan /\ ret.val.avg_order_value.num = 0

\* C8, as claimed: the result of get_top_categories(n) and of
\* get_top_customers(n) is the at most n groups with the largest sums in
\* descending order, groups with equal sums in the order their keys are
\* first met in the clean table.
C8_TopFirstMet == IsTop => (TopIsLargestDescending /\ TiesInFirstMetOrder)

\* C8, amended: the result of get_top_categories(n) and of
\* get_top_customers(n) is the at most n groups (keys that are not missing)
\* with the largest sums of order_amount over the completed records, in
\* descending order of the sum; groups with equal sums come in any order.
C8_TopDescending == IsTop => TopIsLargestDescending

\* a top-1 result cut from two groups with different sums
C8_Witness ==
    /\ IsTop
    /\ ret.n = 1
    /\ Len(ret.val) = 1
    /\ \E key \in GroupKeys(TopColumn) :
          SumOver(CompletedOf(TopColumn, key)) < ret.val[1][2]

====
